---- MODULE Spec2Model ----
(***************************************************************************)
(* Model of RingBuffer<T> (src/src/ring-buffer.ts): a circular buffer      *)
(* backed by a JavaScript array `buffer`, a maximum size `size` and the    *)
(* next write position `pos`.                                              *)
(*                                                                         *)
(* JavaScript values are represented as follows.  Items are the integers   *)
(* 1..NumVals; `undefined` (also an array hole) is Absent.  A number that  *)
(* is NaN is the value NaN; the arithmetic the class performs on numbers   *)
(* that may be NaN (%, +, -, <=, Math.max, the integer conversion of       *)
(* Array#slice) is modelled by the JS* operators below.  An array is a     *)
(* sequence, plus the value of its property "NaN", which is what           *)
(* buffer[NaN] reads and writes.                                           *)
(***************************************************************************)
EXTENDS Integers, Sequences, FiniteSets, TLC

\* ---- bounds of the model ------------------------------------------------
\* largest size given to the constructor and to resize
MaxSize == 2
\* number of distinct items
NumVals == 2
\* most items in one add(...) call
MaxItems == 2
\* longest array given to fromArray
MaxData == 3
\* largest count given to remove
MaxCount == 2
\* get, firstN and lastN are called with arguments up to the length plus this
OverRequest == 2

Vals == 1..NumVals
Absent == 0
NaN == -1000

Min(a, b) == IF a <= b THEN a ELSE b
Max(a, b) == IF a >= b THEN a ELSE b

\* runs of consecutive items (wrapping from NumVals to 1) of every length
\* from lo to hi, starting at every item
Runs(lo, hi) ==
  {[i \in 1..k |-> ((i + o) % NumVals) + 1] : k \in lo..hi, o \in 0..(NumVals - 1)}

\* the argument lists given to add, and the arrays given to fromArray
ItemLists == Runs(1, MaxItems)
DataArrays == Runs(0, MaxData)

\* ---- JavaScript number and array semantics ------------------------------
JSPlus(a, b) == IF a = NaN \/ b = NaN THEN NaN ELSE a + b
JSMinus(a, b) == IF a = NaN \/ b = NaN THEN NaN ELSE a - b

\* a % b: NaN if an operand is NaN or b is 0; the sign is the dividend's
JSMod(a, b) ==
  IF a = NaN \/ b = NaN \/ b = 0 THEN NaN
  ELSE IF a >= 0 THEN a % b ELSE 0 - ((0 - a) % b)

\* x <= 0, which is false for NaN
JSLeqZero(x) == x # NaN /\ x <= 0

\* Math.max(a, b), which is NaN if an operand is NaN
MathMax(a, b) == IF a = NaN \/ b = NaN THEN NaN ELSE Max(a, b)

\* ToIntegerOrInfinity as applied by Array#slice to its arguments
ToInteger(x) == IF x = NaN THEN 0 ELSE x

\* Array.prototype.slice(start, end)
JSSlice(a, start, end) ==
  LET len == Len(a)
      rs == ToInteger(start)
      re == ToInteger(end)
      k == IF rs < 0 THEN Max(len + rs, 0) ELSE Min(rs, len)
      final == IF re < 0 THEN Max(len + re, 0) ELSE Min(re, len)
  IN IF k < final THEN SubSeq(a, k + 1, final) ELSE <<>>

\* Array.prototype.slice(start)
JSSliceFrom(a, start) == JSSlice(a, start, Len(a))

\* Array.prototype.splice(start, deleteCount): the removed items and the
\* array that is left
JSSplice(a, start, deleteCount) ==
  LET len == Len(a)
      k == IF start < 0 THEN Max(len + start, 0) ELSE Min(start, len)
      dc == Min(Max(deleteCount, 0), len - k)
  IN [removed |-> SubSeq(a, k + 1, k + dc),
      rest |-> SubSeq(a, 1, k) \o SubSeq(a, k + dc + 1, len)]

\* a[i] for a number i that is a non-negative integer or NaN
ArrayGet(a, nanProp, i) ==
  IF i = NaN THEN nanProp
  ELSE IF i >= 0 /\ i < Len(a) THEN a[i + 1]
  ELSE Absent

\* a[i] = item: writes an element, extending the array (with holes) if i is
\* at or past its length; a[NaN] = item sets the property "NaN" and leaves
\* the elements and the length alone
ArraySet(a, nanProp, i, item) ==
  IF i = NaN THEN [buffer |-> a, nan |-> item]
  ELSE IF i < Len(a) THEN [buffer |-> [a EXCEPT ![i + 1] = item], nan |-> nanProp]
  ELSE [buffer |-> a \o [j \in 1..(i - Len(a)) |-> Absent] \o <<item>>,
        nan |-> nanProp]

\* ---- the instance --------------------------------------------------------
VARIABLES buffer,     \* this.buffer, the elements
          bufferNaN,  \* this.buffer["NaN"]
          size,       \* this.size
          pos,        \* this.pos
          call,       \* the last call: its name and arguments
          pre,        \* the instance before the last call
          ret,        \* what the last call returned, as a sequence
          err         \* the error the last call threw, or "none"

vars == <<buffer, bufferNaN, size, pos, call, pre, ret, err>>

this == [buffer |-> buffer, nan |-> bufferNaN, size |-> size, pos |-> pos]

\* constructor(size), for size >= 0
RingBuffer(sz) == [buffer |-> <<>>, nan |-> Absent, size |-> sz, pos |-> 0]

getSize(s) == s.size
getPos(s) == s.pos
getBufferLength(s) == Len(s.buffer)

\* addItem with the position wrapped one slot too late
addItemWrapLate(s, item) ==
  LET w == ArraySet(s.buffer, s.nan, s.pos, item)
  IN [s EXCEPT !.buffer = w.buffer, !.nan = w.nan,
               !.pos = JSMod(JSPlus(s.pos, 1), s.size + 1)]

\* one iteration of the forEach in add
addItem(s, item) ==
  LET w == ArraySet(s.buffer, s.nan, s.pos, item)
  IN [s EXCEPT !.buffer = w.buffer, !.nan = w.nan,
               !.pos = JSMod(JSPlus(s.pos, 1), s.size)]

RECURSIVE add(_, _)
add(s, items) ==
  IF items = <<>> THEN s ELSE add(addItem(s, Head(items)), Tail(items))

get(s, index) ==
  LET i == IF index < 0 THEN index + Len(s.buffer) ELSE index
  IN IF i < 0 \/ i > Len(s.buffer) THEN Absent
     ELSE IF Len(s.buffer) < s.size THEN ArrayGet(s.buffer, s.nan, i)
     ELSE ArrayGet(s.buffer, s.nan, JSMod(JSPlus(s.pos, i), s.size))

getFirst(s) == get(s, 0)
getLast(s) == get(s, -1)

toArray(s) ==
  JSSliceFrom(s.buffer, s.pos) \o JSSlice(s.buffer, 0, s.pos)

\* firstN that stops at the end of the array instead of wrapping to slot 0
firstNNoWrap(s, n) == JSSlice(s.buffer, s.pos, JSPlus(s.pos, n))

firstN(s, n) ==
  LET firstPart == JSSlice(s.buffer, s.pos, JSPlus(s.pos, n))
      remaining == JSMinus(JSPlus(s.pos, n), s.size)
  IN IF JSLeqZero(remaining) THEN firstPart
     ELSE firstPart \o JSSlice(s.buffer, 0, remaining)

\* lastN that stops at slot 0 instead of wrapping to the end of the array
lastNNoWrap(s, n) ==
  JSSlice(s.buffer, MathMax(0, JSMinus(s.pos, n)), s.pos)

lastN(s, n) ==
  LET firstPart == JSSlice(s.buffer, MathMax(0, JSMinus(s.pos, n)), s.pos)
      remaining == JSMinus(n, s.pos)
  IN IF JSLeqZero(remaining) THEN firstPart
     ELSE JSSlice(s.buffer, JSMinus(s.size, remaining), s.size) \o firstPart

\* clear that also resets the size
clearResetsSize(s) == [s EXCEPT !.buffer = <<>>, !.nan = Absent, !.pos = 0, !.size = 0]

clear(s) == [s EXCEPT !.buffer = <<>>, !.nan = Absent, !.pos = 0]

\* fromArrayStore keeping the whole of data, however long
fromArrayStoreAll(s, data) ==
  IF s.size = 0 THEN s
  ELSE [s EXCEPT !.buffer = data, !.nan = Absent, !.pos = JSMod(Len(data), s.size)]

\* fromArrayStore keeping the first this.size items of data, not the last
fromArrayStoreOldest(s, data) ==
  IF s.size = 0 THEN s
  ELSE LET b == JSSlice(data, 0, s.size)
       IN [s EXCEPT !.buffer = b, !.nan = Absent, !.pos = JSMod(Len(b), s.size)]

\* fromArray from its size check on: what fromArray(data) does for an array
\* and resize = false
fromArrayStore(s, data) ==
  IF s.size = 0 THEN s
  ELSE LET b == JSSliceFrom(data, 0 - s.size)
       IN [s EXCEPT !.buffer = b, !.nan = Absent, !.pos = JSMod(Len(b), s.size)]

\* resize that keeps the oldest newSize items instead of the newest
resizeKeepOldest(s, newSize) ==
  LET t == IF newSize = 0 THEN clear(s)
           ELSE IF newSize # s.size
             THEN LET currentBuffer == toArray(s)
                      u == fromArrayStore(s, JSSlice(currentBuffer, 0, newSize))
                  IN [u EXCEPT !.pos = JSMod(Len(u.buffer), newSize)]
             ELSE s
  IN [t EXCEPT !.size = newSize]

\* resize that leaves the position where fromArray put it
resizeStalePos(s, newSize) ==
  LET t == IF newSize = 0 THEN clear(s)
           ELSE IF newSize # s.size
             THEN fromArrayStore(s, JSSliceFrom(toArray(s), 0 - newSize))
             ELSE s
  IN [t EXCEPT !.size = newSize]

\* resize(newSize), for newSize >= 0
resize(s, newSize) ==
  LET t == IF newSize = 0 THEN clear(s)
           ELSE IF newSize # s.size
             THEN LET currentBuffer == toArray(s)
                      u == fromArrayStore(s, JSSliceFrom(currentBuffer, 0 - newSize))
                  IN [u EXCEPT !.pos = JSMod(Len(u.buffer), newSize)]
             ELSE s
  IN [t EXCEPT !.size = newSize]

\* fromArray(data, resize), for data an array
fromArray(s, data, rsz) ==
  fromArrayStore(IF rsz THEN resize(s, Len(data)) ELSE s, data)

\* remove(index, count): the instance afterwards and the returned array
remove(s, index, count) ==
  LET i == IF index < 0 THEN index + Len(s.buffer) ELSE index
  IN IF i < 0 \/ i > Len(s.buffer) THEN [st |-> s, ret |-> <<>>]
     ELSE LET arr == toArray(s)
              sp == JSSplice(arr, i, count)
          IN [st |-> fromArray(s, sp.rest, FALSE), ret |-> sp.removed]

\* removeFirst that takes the newest item instead of the oldest
removeFirstNewest(s) ==
  LET r == remove(s, -1, 1)
  IN [st |-> r.st, ret |-> ArrayGet(r.ret, Absent, 0)]

\* remove(0)[0] and remove(-1)[0]
removeFirst(s) ==
  LET r == remove(s, 0, 1)
  IN [st |-> r.st, ret |-> ArrayGet(r.ret, Absent, 0)]

removeLast(s) ==
  LET r == remove(s, -1, 1)
  IN [st |-> r.st, ret |-> ArrayGet(r.ret, Absent, 0)]

isFull(s) == Len(s.buffer) = s.size
isEmpty(s) == Len(s.buffer) = 0

\* the fields when the constructor threw: no instance exists and no method
\* is ever called; the variables then hold the fields of an empty instance
NoInstance == RingBuffer(0)

\* new RingBuffer(size): the instance and the error thrown
newRingBuffer(sz) ==
  IF sz < 0 THEN [st |-> NoInstance, err |-> "RangeError"]
  ELSE [st |-> RingBuffer(sz), err |-> "none"]

\* the static fromArray that never asks for a resize
staticFromArrayNoResize(data, sz) ==
  LET c == newRingBuffer(sz)
  IN IF c.err # "none" THEN c
     ELSE [st |-> fromArray(c.st, data, FALSE), err |-> "none"]

\* static RingBuffer.fromArray(data, size), for data an array
staticFromArray(data, sz) ==
  LET c == newRingBuffer(sz)
  IN IF c.err # "none" THEN c
     ELSE [st |-> fromArray(c.st, data, sz = 0), err |-> "none"]

\* resize that clears the buffer before it rejects a negative size
resizeCheckedLate(s, newSize) ==
  IF newSize < 0 THEN [st |-> clear(s), err |-> "RangeError"]
  ELSE [st |-> resize(s, newSize), err |-> "none"]

\* resize(newSize) for any newSize: the instance afterwards and the error
\* thrown
resizeChecked(s, newSize) ==
  IF newSize < 0 THEN [st |-> s, err |-> "RangeError"]
  ELSE [st |-> resize(s, newSize), err |-> "none"]

\* fromArray(data, resize) for any data: the instance afterwards and the
\* error thrown; isArray is what Array.isArray(data) answers
fromArrayChecked(s, isArray, data, rsz) ==
  IF ~isArray THEN [st |-> s, err |-> "TypeError"]
  ELSE [st |-> fromArray(s, data, rsz), err |-> "none"]

\* ---- the calls as actions ------------------------------------------------
Call(name, n, count, data, flag) ==
  [op |-> name, n |-> n, count |-> count, data |-> data, flag |-> flag]

Becomes(t) ==
  /\ buffer' = t.buffer
  /\ bufferNaN' = t.nan
  /\ size' = t.size
  /\ pos' = t.pos

\* the constructor or the static fromArray returned an instance
Constructed == ~(call.op \in {"new", "RingBuffer.fromArray"} /\ err # "none")

\* a method is called on an instance, so only once one was constructed
Returns(c, r, e) ==
  /\ Constructed
  /\ call' = c
  /\ pre' = this
  /\ ret' = r
  /\ err' = e

Starts(t, c, e) ==
  /\ buffer = t.buffer
  /\ bufferNaN = t.nan
  /\ size = t.size
  /\ pos = t.pos
  /\ call = c
  /\ pre = t
  /\ ret = <<>>
  /\ err = e

\* new RingBuffer(size)
InitNew ==
  \E sz \in (0 - 1)..MaxSize :
    LET c == newRingBuffer(sz)
    IN Starts(c.st, Call("new", sz, 0, <<>>, FALSE), c.err)

\* RingBuffer.fromArray(data, size)
InitFromArray ==
  \E data \in DataArrays, sz \in (0 - 1)..MaxSize :
    LET c == staticFromArray(data, sz)
    IN /\ sz = 0 => Len(data) <= MaxSize
       /\ Starts(c.st, Call("RingBuffer.fromArray", sz, 0, data, FALSE), c.err)

Init == InitNew \/ InitFromArray

Add ==
  \E items \in ItemLists :
    /\ Becomes(add(this, items))
    /\ Returns(Call("add", 0, 0, items, FALSE), <<>>, "none")

Get ==
  \E index \in (0 - (MaxSize + OverRequest))..(MaxSize + OverRequest) :
    /\ index <= Len(buffer) + OverRequest
    /\ index >= 0 - (Len(buffer) + OverRequest)
    /\ Becomes(this)
    /\ Returns(Call("get", index, 0, <<>>, FALSE), <<get(this, index)>>, "none")

GetFirst ==
  /\ Becomes(this)
  /\ Returns(Call("getFirst", 0, 0, <<>>, FALSE), <<getFirst(this)>>, "none")

GetLast ==
  /\ Becomes(this)
  /\ Returns(Call("getLast", 0, 0, <<>>, FALSE), <<getLast(this)>>, "none")

Remove ==
  \E index \in (0 - (MaxSize + 1))..(MaxSize + 1), count \in 0..MaxCount :
    LET r == remove(this, index, count)
    IN /\ index <= Len(buffer) + 1
       /\ index >= 0 - (Len(buffer) + 1)
       /\ Becomes(r.st)
       /\ Returns(Call("remove", index, count, <<>>, FALSE), r.ret, "none")

RemoveFirst ==
  LET r == removeFirst(this)
  IN /\ Becomes(r.st)
     /\ Returns(Call("removeFirst", 0, 0, <<>>, FALSE), <<r.ret>>, "none")

RemoveLast ==
  LET r == removeLast(this)
  IN /\ Becomes(r.st)
     /\ Returns(Call("removeLast", 0, 0, <<>>, FALSE), <<r.ret>>, "none")

\* toArray that cuts the buffer with splice where the code copies with slice
ToArraySplicing ==
  /\ Becomes([this EXCEPT !.buffer = JSSplice(buffer, ToInteger(pos), Len(buffer)).rest])
  /\ Returns(Call("toArray", 0, 0, <<>>, FALSE), toArray(this), "none")

ToArray ==
  /\ Becomes(this)
  /\ Returns(Call("toArray", 0, 0, <<>>, FALSE), toArray(this), "none")

FirstN ==
  \E n \in 0..(MaxSize + 1 + OverRequest) :
    /\ n <= Len(buffer) + OverRequest
    /\ Becomes(this)
    /\ Returns(Call("firstN", n, 0, <<>>, FALSE), firstN(this, n), "none")

LastN ==
  \E n \in 0..(MaxSize + 1 + OverRequest) :
    /\ n <= Len(buffer) + OverRequest
    /\ Becomes(this)
    /\ Returns(Call("lastN", n, 0, <<>>, FALSE), lastN(this, n), "none")

\* fromArray(data, resize); isArray is what Array.isArray(data) answers
FromArray ==
  \E data \in DataArrays, rsz \in BOOLEAN, isArray \in BOOLEAN :
    LET r == fromArrayChecked(this, isArray, data, rsz)
    IN /\ ~isArray => data = <<>>
       /\ (isArray /\ rsz) => Len(data) <= MaxSize
       /\ Becomes(r.st)
       /\ Returns(Call("fromArray", IF isArray THEN 1 ELSE 0, 0, data, rsz), <<>>, r.err)

Clear ==
  /\ Becomes(clear(this))
  /\ Returns(Call("clear", 0, 0, <<>>, FALSE), <<>>, "none")

Resize ==
  \E newSize \in (0 - 1)..MaxSize :
    LET r == resizeChecked(this, newSize)
    IN /\ Becomes(r.st)
       /\ Returns(Call("resize", newSize, 0, <<>>, FALSE), <<>>, r.err)

GetSize ==
  /\ Becomes(this)
  /\ Returns(Call("getSize", 0, 0, <<>>, FALSE), <<getSize(this)>>, "none")

GetPos ==
  /\ Becomes(this)
  /\ Returns(Call("getPos", 0, 0, <<>>, FALSE), <<getPos(this)>>, "none")

GetBufferLength ==
  /\ Becomes(this)
  /\ Returns(Call("getBufferLength", 0, 0, <<>>, FALSE), <<getBufferLength(this)>>, "none")

IsFull ==
  /\ Becomes(this)
  /\ Returns(Call("isFull", 0, 0, <<>>, FALSE), <<isFull(this)>>, "none")

IsEmpty ==
  /\ Becomes(this)
  /\ Returns(Call("isEmpty", 0, 0, <<>>, FALSE), <<isEmpty(this)>>, "none")

\* add as a caller that respects its precondition calls it: size >= 1
AddSized ==
  /\ size >= 1
  /\ Add

Next ==
  \/ Add
  \/ Get
  \/ GetFirst
  \/ GetLast
  \/ Remove
  \/ RemoveFirst
  \/ RemoveLast
  \/ ToArray
  \/ FirstN
  \/ LastN
  \/ FromArray
  \/ Clear
  \/ Resize
  \/ GetSize
  \/ GetPos
  \/ GetBufferLength
  \/ IsFull
  \/ IsEmpty

Spec == Init /\ [][Next]_vars

\* the instance used with add called only while its size is at least 1
NextSized ==
  \/ AddSized
  \/ Get
  \/ GetFirst
  \/ GetLast
  \/ Remove
  \/ RemoveFirst
  \/ RemoveLast
  \/ ToArray
  \/ FirstN
  \/ LastN
  \/ FromArray
  \/ Clear
  \/ Resize
  \/ GetSize
  \/ GetPos
  \/ GetBufferLength
  \/ IsFull
  \/ IsEmpty

SpecSized == Init /\ [][NextSized]_vars

\* the instance used as a queue: one item added at a time and only while the
\* buffer is not full, items taken with removeFirst, and any reads in between
FifoAdd ==
  \E x \in Vals :
    /\ size >= 1
    /\ ~isFull(this)
    /\ Becomes(add(this, <<x>>))
    /\ Returns(Call("add", 0, 0, <<x>>, FALSE), <<>>, "none")

NextFifo ==
  \/ FifoAdd
  \/ RemoveFirst
  \/ Get
  \/ GetFirst
  \/ GetLast
  \/ ToArray
  \/ FirstN
  \/ LastN
  \/ GetSize
  \/ GetPos
  \/ GetBufferLength
  \/ IsFull
  \/ IsEmpty

SpecFifo == InitNew /\ [][NextFifo]_vars

TypeOK ==
  /\ size \in 0..MaxSize
  /\ pos \in (0..MaxSize) \cup {NaN}
  /\ err \in {"none", "RangeError", "TypeError"}

\* ---- properties ---------------------------------------------------------
\* the last k items of a sequence, all of it if k exceeds its length
LastK(a, k) == SubSeq(a, Len(a) - Min(k, Len(a)) + 1, Len(a))

\* the index of the last get or remove call after a negative index has had
\* the previous length added
Remapped == IF call.n < 0 THEN call.n + Len(pre.buffer) ELSE call.n

\* C1: add(x1..xk) on an instance of size c >= 1 with content L leaves
\* toArray() equal to the last min(c, |L| + k) items of L followed by x1..xk.
C1_OverwriteOrder ==
  (call.op = "add" /\ pre.size >= 1) =>
    toArray(this) =
      LastK(toArray(pre) \o call.data, Min(pre.size, Len(toArray(pre)) + Len(call.data)))

\* an add that overwrote the oldest items and left the position mid-array
C1_Witness ==
  /\ call.op = "add"
  /\ pre.size >= 2
  /\ Len(toArray(pre)) + Len(call.data) > pre.size
  /\ pos # 0
  /\ toArray(this) # buffer

\* C2: with add called only at size >= 1, the length of the buffer is at
\* most the size, and add on a full buffer leaves the length at the size.
C2_LengthBound ==
  /\ Len(buffer) <= size
  /\ (call.op = "add" /\ Len(pre.buffer) = pre.size) => Len(buffer) = size

\* an add on a full buffer
C2_Witness ==
  /\ call.op = "add"
  /\ pre.size >= 1
  /\ Len(pre.buffer) = pre.size
  /\ Len(buffer) = size

\* C3: firstN(n) equals toArray().slice(0, n).
C3_FirstN ==
  call.op = "firstN" => ret = JSSlice(toArray(this), 0, call.n)

\* C4: lastN(n) equals the last min(n, length) items of toArray().
C4_LastN ==
  call.op = "lastN" => ret = LastK(toArray(this), call.n)

\* C5: get(index) is absent whenever the remapped index is outside
\* [0, length).
C5_GetOutOfRange ==
  (call.op = "get" /\ (Remapped < 0 \/ Remapped >= Len(pre.buffer))) =>
    ret = <<Absent>>

\* C6: get(i) is toArray()[i] for 0 <= i < length, and get(-k) is
\* toArray()[length - k] for 1 <= k <= length; getFirst() is the oldest item
\* and getLast() the newest.
C6_GetInRange ==
  /\ (call.op = "get" /\ Remapped >= 0 /\ Remapped < Len(pre.buffer)) =>
       ret = <<toArray(pre)[Remapped + 1]>>
  /\ (call.op = "getFirst" /\ Len(pre.buffer) > 0) => ret = <<Head(toArray(pre))>>
  /\ (call.op = "getLast" /\ Len(pre.buffer) > 0) =>
       ret = <<toArray(pre)[Len(toArray(pre))]>>

\* C7: remove(index, count) with the remapped index in [0, length) returns
\* toArray()[index .. index + count), leaves the content without exactly
\* those items, and leaves the size unchanged.
C7_RemoveInRange ==
  (call.op = "remove" /\ Remapped >= 0 /\ Remapped < Len(pre.buffer)) =>
    LET L == toArray(pre)
        last == Min(Remapped + call.count, Len(L))
    IN /\ ret = SubSeq(L, Remapped + 1, last)
       /\ toArray(this) = SubSeq(L, 1, Remapped) \o SubSeq(L, last + 1, Len(L))
       /\ size = pre.size

\* C8: remove(index, count) with the remapped index outside [0, length)
\* returns an empty array and leaves buffer, position and size as they were.
C8_RemoveOutOfRange ==
  (call.op = "remove" /\ (Remapped < 0 \/ Remapped >= Len(pre.buffer))) =>
    /\ ret = <<>>
    /\ err = "none"
    /\ buffer = pre.buffer
    /\ pos = pre.pos
    /\ size = pre.size

\* C9: fromArray(data) without resize at size c >= 1 leaves toArray() equal
\* to the last min(c, |data|) items of data, the size c and the position
\* length mod c.
C9_FromArray ==
  (call.op = "fromArray" /\ err = "none" /\ ~call.flag /\ pre.size >= 1) =>
    /\ toArray(this) = LastK(call.data, Min(pre.size, Len(call.data)))
    /\ size = pre.size
    /\ pos = Len(buffer) % size

\* a fromArray that dropped the oldest items of data, on an instance that
\* held something else
C9_Witness ==
  /\ call.op = "fromArray"
  /\ err = "none"
  /\ ~call.flag
  /\ pre.size >= 1
  /\ Len(call.data) > pre.size
  /\ pre.buffer # <<>>
  /\ pre.pos # 0
  /\ toArray(this) # call.data

\* C10: resize(n), n >= 0, on content L sets the size to n and leaves
\* toArray() equal to the last min(n, |L|) items of L.
C10_Resize ==
  (call.op = "resize" /\ err = "none") =>
    /\ size = call.n
    /\ toArray(this) = LastK(toArray(pre), Min(call.n, Len(toArray(pre))))

\* a resize that shrank a full, wrapped buffer and dropped its oldest items
C10_Witness ==
  /\ call.op = "resize"
  /\ err = "none"
  /\ call.n >= 1
  /\ call.n < Len(pre.buffer)
  /\ pre.pos # 0
  /\ Len(pre.buffer) = pre.size
  /\ Len(buffer) = call.n

\* C11: an instance of size 0 is always empty: its buffer has length 0
\* (isEmpty() and isFull() are both true), get(0) is absent and the position
\* is 0, also after add.
C11_ZeroCapacityEmpty ==
  size = 0 =>
    /\ Len(buffer) = 0
    /\ isEmpty(this)
    /\ isFull(this)
    /\ get(this, 0) = Absent
    /\ pos = 0

\* C13: with add called only at size >= 1, the position is in [0, size)
\* (0 at size 0), and while the buffer is not full it is the buffer's length.
C13_CursorInvariant ==
  /\ pos # NaN
  /\ IF size = 0 THEN pos = 0 ELSE pos >= 0 /\ pos < size
  /\ Len(buffer) < size => pos = Len(buffer)

\* a resize that shrank a wrapped buffer to a size it does not fill
C13_Witness ==
  /\ call.op = "resize"
  /\ err = "none"
  /\ pre.pos # 0
  /\ Len(pre.buffer) = pre.size
  /\ size < pre.size
  /\ size >= 1
  /\ pos = 0

\* the calls that C15 says leave the size alone
KeepsSize ==
  \/ call.op \in {"add", "remove", "removeFirst", "removeLast", "clear"}
  \/ call.op = "fromArray" /\ ~call.flag

\* C15: add, remove, removeFirst, removeLast, clear and fromArray(data)
\* without resize leave the size unchanged; resize(n) sets it to n and
\* fromArray(data, true) to |data|.
C15_CapacityFixed ==
  /\ KeepsSize => size = pre.size
  /\ (call.op = "resize" /\ err = "none") => size = call.n
  /\ (call.op = "fromArray" /\ err = "none" /\ call.flag) => size = Len(call.data)

\* a clear of a non-empty buffer, whose size is still what it was
C15_Witness ==
  /\ call.op = "clear"
  /\ pre.buffer # <<>>
  /\ pre.size >= 1
  /\ buffer = <<>>
  /\ size = pre.size

\* C18: at size >= 1 and for n <= length, lastN(n) is the last n items of
\* toArray().
C18_LastNExact ==
  (call.op = "lastN" /\ size >= 1 /\ call.n <= Len(buffer)) =>
    ret = LastK(toArray(this), call.n)

\* a lastN on a full, wrapped buffer that took items from both ends of the
\* array
C18_Witness ==
  /\ call.op = "lastN"
  /\ size >= 2
  /\ Len(buffer) = size
  /\ pos # 0
  /\ call.n > pos
  /\ call.n <= Len(buffer)
  /\ Len(ret) = call.n

\* C19: on a full buffer of size >= 1 and for n <= size, firstN(n) is
\* toArray().slice(0, n).
C19_FirstNFull ==
  (call.op = "firstN" /\ size >= 1 /\ Len(buffer) = size /\ call.n <= size) =>
    ret = JSSlice(toArray(this), 0, call.n)

\* a firstN on a full, wrapped buffer that took items from both ends of the
\* array
C19_Witness ==
  /\ call.op = "firstN"
  /\ size >= 2
  /\ Len(buffer) = size
  /\ pos # 0
  /\ pos + call.n > size
  /\ call.n <= size
  /\ Len(ret) = call.n

\* C16: on a non-empty buffer removeFirst() returns the oldest item and
\* removeLast() the newest, the length drops by exactly 1 and the other items
\* keep their order; on an empty buffer both return absent and leave buffer,
\* position and size as they were.
C16_RemoveOne ==
  LET L == toArray(pre)
  IN /\ (call.op = "removeFirst" /\ pre.buffer # <<>>) =>
          /\ ret = <<Head(L)>>
          /\ Len(buffer) = Len(pre.buffer) - 1
          /\ toArray(this) = Tail(L)
     /\ (call.op = "removeLast" /\ pre.buffer # <<>>) =>
          /\ ret = <<L[Len(L)]>>
          /\ Len(buffer) = Len(pre.buffer) - 1
          /\ toArray(this) = SubSeq(L, 1, Len(L) - 1)
     /\ (call.op \in {"removeFirst", "removeLast"} /\ pre.buffer = <<>>) =>
          /\ ret = <<Absent>>
          /\ buffer = pre.buffer
          /\ pos = pre.pos
          /\ size = pre.size

\* the fromArray call was given something that is not an array
NotArrayCall == call.op = "fromArray" /\ call.n = 0

\* C12: new RingBuffer(c) and resize(c) with c < 0 throw a RangeError,
\* fromArray of a non-array throws a TypeError whatever the resize flag, and
\* a failed resize or fromArray leaves buffer, position and size as they were.
C12_InvalidConfiguration ==
  /\ (call.op = "new" /\ call.n < 0) => err = "RangeError"
  /\ (call.op = "new" /\ call.n >= 0) => err = "none"
  /\ (call.op = "resize" /\ call.n < 0) => (err = "RangeError" /\ this = pre)
  /\ NotArrayCall => (err = "TypeError" /\ this = pre)

\* a resize with a negative size on a full, wrapped buffer
C12_Witness ==
  /\ call.op = "resize"
  /\ call.n < 0
  /\ err = "RangeError"
  /\ Len(buffer) = size
  /\ pos # 0
  /\ pos # NaN

\* C14: RingBuffer.fromArray(data, size) with size 0 gives a full instance
\* of size |data| whose toArray() is data; with size > 0 an instance of that
\* size whose toArray() is the last min(size, |data|) items of data; with
\* size < 0 it throws a RangeError.
C14_StaticFromArray ==
  call.op = "RingBuffer.fromArray" =>
    /\ call.n < 0 => err = "RangeError"
    /\ call.n = 0 =>
         /\ err = "none"
         /\ size = Len(call.data)
         /\ toArray(this) = call.data
         /\ isFull(this)
    /\ call.n > 0 =>
         /\ err = "none"
         /\ size = call.n
         /\ toArray(this) = LastK(call.data, Min(call.n, Len(call.data)))

\* a static fromArray without a size, of an array of two or more items
C14_Witness ==
  /\ call.op = "RingBuffer.fromArray"
  /\ call.n = 0
  /\ Len(call.data) >= 2
  /\ size = Len(call.data)
  /\ buffer = call.data

\* C17: used as a queue, add(x) on a buffer that is not full appends x to
\* toArray(), and removeFirst() on a non-empty buffer returns the head of
\* toArray() and leaves its tail: the items come out in the order they went
\* in, none lost, duplicated or reordered.
C17_Fifo ==
  /\ call.op = "add" => toArray(this) = toArray(pre) \o call.data
  /\ (call.op = "removeFirst" /\ toArray(pre) # <<>>) =>
       /\ ret = <<Head(toArray(pre))>>
       /\ toArray(this) = Tail(toArray(pre))
  /\ (call.op = "removeFirst" /\ toArray(pre) = <<>>) =>
       /\ ret = <<Absent>>
       /\ toArray(this) = <<>>

\* a removeFirst from a full buffer of two different items, which leaves the
\* newer one
C17_Witness ==
  /\ call.op = "removeFirst"
  /\ Len(pre.buffer) = 2
  /\ pre.size = 2
  /\ pre.buffer[1] # pre.buffer[2]
  /\ ret = <<pre.buffer[1]>>
  /\ buffer = <<pre.buffer[2]>>

\* the calls that only read
ReadOps ==
  {"get", "getFirst", "getLast", "toArray", "firstN", "lastN", "isFull",
   "isEmpty", "getSize", "getPos", "getBufferLength"}

\* C20: get, getFirst, getLast, toArray, firstN, lastN, isFull, isEmpty,
\* getSize, getPos and getBufferLength leave buffer, position and size as
\* they were.
C20_ReadsArePure ==
  call.op \in ReadOps =>
    /\ buffer = pre.buffer
    /\ bufferNaN = pre.nan
    /\ pos = pre.pos
    /\ size = pre.size
    /\ err = "none"

\* a toArray of a full, wrapped buffer, which returned the rotated content
C20_Witness ==
  /\ call.op = "toArray"
  /\ Len(buffer) = size
  /\ pos # 0
  /\ pos # NaN
  /\ ret # buffer
  /\ buffer = pre.buffer
====
